---- MODULE Spec2Model ----
(***************************************************************************)
(* Model of src/app.py (bridal catalog manager): the metadata codec, the   *)
(* description normaliser, the page renderer and the catalog store.        *)
(*                                                                         *)
(* Text is a sequence of one-character strings.  A JSON / Python value is  *)
(* a record tagged by t (null, str, num, list, obj) with its content in a *)
(* field of its own (s, n, items, kv).  A JSON object is a function from   *)
(* key names to values.  A character outside ASCII is        *)
(* written by its pinyin name, as one character of the text.               *)
(***************************************************************************)
EXTENDS Integers, Sequences, FiniteSets, TLC

VARIABLES
    \* normaliser calls: the input, the position passed, the call, its result
    nin, nidx, nop, nout,
    \* legacy codec: the file text, the stage, the parse result
    ltext, lstage, lout,
    \* codec pipeline of one metadata file: its name, its content, the stage,
    \* the first parse, the edited fields, the parse of the written file
    cname, cfile, cstage, centry, cdata, cre,
    \* renderer: the entry, the image policy (use_file_uri), the images that
    \* can be read, the stage, the rendered fragment
    rentry, ruri, rreadable, rstage, rout,
    \* catalog store: the template directory, MainWindow.entries, the rows of
    \* entry_list and its current row, the editor's current_entry and
    \* pending_files, the message boxes of the last handler, the number of
    \* handlers run, the last handler and how it ended, the folder and the
    \* form data that handler worked on
    dir, entries, rows, currentRow, current_entry, pending_files, dialogs,
    ops, lastop, call

normVars == <<nin, nidx, nop, nout>>
legacyVars == <<ltext, lstage, lout>>
codecVars == <<cname, cfile, cstage, centry, cdata, cre>>

renderVars == <<rentry, ruri, rreadable, rstage, rout>>

storeVars ==
    <<dir, entries, rows, currentRow, current_entry, pending_files, dialogs,
      ops, lastop, call>>

vars == <<normVars, legacyVars, codecVars, renderVars, storeVars>>

---------------------------------------------------------------------------
(* Bounds of the explored inputs *)

MaxStrLen == 3
MaxListLen == 3
MaxLines == 4

---------------------------------------------------------------------------
(* Text primitives: str.strip, str.splitlines, str.join, str(int) *)

NL == "\n"
SP == " "
Whitespace == {SP, NL}

RECURSIVE lstrip(_)
lstrip(s) ==
    IF s # <<>> /\ Head(s) \in Whitespace THEN lstrip(Tail(s)) ELSE s

RECURSIVE rstrip(_)
rstrip(s) ==
    IF s # <<>> /\ s[Len(s)] \in Whitespace
    THEN rstrip(SubSeq(s, 1, Len(s) - 1))
    ELSE s

strip(s) == rstrip(lstrip(s))

\* splitlines: cur is the line being read, acc the lines already closed.
RECURSIVE splitlinesFrom(_, _, _)
splitlinesFrom(s, cur, acc) ==
    IF s = <<>>
    THEN IF cur = <<>> THEN acc ELSE Append(acc, cur)
    ELSE IF Head(s) = NL
         THEN splitlinesFrom(Tail(s), <<>>, Append(acc, cur))
         ELSE splitlinesFrom(Tail(s), Append(cur, Head(s)), acc)

splitlines(s) == splitlinesFrom(s, <<>>, <<>>)

RECURSIVE join(_, _)
join(sep, parts) ==
    IF parts = <<>> THEN <<>>
    ELSE IF Len(parts) = 1 THEN parts[1]
    ELSE parts[1] \o sep \o join(sep, Tail(parts))

Digit == <<"0", "1", "2", "3", "4", "5", "6", "7", "8", "9">>

RECURSIVE IntStr(_)
IntStr(n) ==
    IF n < 0 THEN <<"-">> \o IntStr(0 - n)
    ELSE IF n < 10 THEN <<Digit[n + 1]>>
    ELSE IntStr(n \div 10) \o <<Digit[(n % 10) + 1]>>

SetMin(S) == CHOOSE x \in S : \A y \in S : x <= y

---------------------------------------------------------------------------
(* JSON / Python values *)

JNull == [t |-> "null"]
JStr(s) == [t |-> "str", s |-> s]
JNum(n) == [t |-> "num", n |-> n]
JList(items) == [t |-> "list", items |-> items]
JObj(kv) == [t |-> "obj", kv |-> kv]

\* dict.get(key): None when the key is absent.
get(m, k) == IF k \in DOMAIN m THEN m[k] ELSE JNull

\* Python truth value, as tested by `or` and `if`.
Truthy(x) ==
    CASE x.t = "null" -> FALSE
      [] x.t = "str" -> x.s # <<>>
      [] x.t = "num" -> x.n # 0
      [] x.t = "list" -> x.items # <<>>
      [] x.t = "obj" -> DOMAIN x.kv # {}

\* str(x) for the scalars the explored inputs hold.
PyStr(x) ==
    CASE x.t = "str" -> x.s
      [] x.t = "num" -> IntStr(x.n)
      [] x.t = "null" -> <<"N", "o", "n", "e">>

\* Mutant of OrGet: the first key that is present, whatever its value.
RECURSIVE OrGetFirstPresent(_, _)
OrGetFirstPresent(m, keys) ==
    IF Len(keys) = 1 THEN get(m, keys[1])
    ELSE IF keys[1] \in DOMAIN m THEN m[keys[1]]
    ELSE OrGetFirstPresent(m, Tail(keys))

\* mapping.get(k1) or mapping.get(k2) or ... : the first truthy operand,
\* else the last operand.
RECURSIVE OrGet(_, _)
OrGet(m, keys) ==
    IF Len(keys) = 1 THEN get(m, keys[1])
    ELSE IF Truthy(get(m, keys[1])) THEN get(m, keys[1])
    ELSE OrGet(m, Tail(keys))

---------------------------------------------------------------------------
(* DescriptionNormalizer *)

TitleKeys == <<"title", "label", "name">>
ContentKeys == <<"text", "content", "desc", "description", "value">>

DescriptionBlock(title, content) == [title |-> title, content |-> content]

\* f"要点 {idx + 1}": the two characters 要点 (by their pinyin names), a
\* space and the 1-based position.
DefaultTitle(idx) == <<"yao", "dian", SP>> \o IntStr(idx + 1)

\* idx is <<>> for None and <<i>> for the position i.  The result is <<>>
\* for None and <<block>> for a block.
block_from_mapping(mapping, idx) ==
    IF mapping.t # "obj" THEN <<>>
    ELSE
        LET title_raw == OrGet(mapping.kv, TitleKeys)
            content_raw == OrGet(mapping.kv, ContentKeys)
        IN  IF content_raw.t = "null" THEN <<>>
            ELSE
                LET content == strip(PyStr(content_raw))
                    title0 == IF Truthy(title_raw)
                              THEN strip(PyStr(title_raw))
                              ELSE <<>>
                    title == IF title0 = <<>> /\ idx # <<>>
                             THEN DefaultTitle(idx[1])
                             ELSE title0
                IN  IF content = <<>> THEN <<>>
                    ELSE <<DescriptionBlock(title, content)>>

\* Mutant of coerce_desc_loop: blank string items are kept as paragraphs.
RECURSIVE coerce_desc_loop_keep_blank(_, _, _, _)
coerce_desc_loop_keep_blank(items, i, paragraphs, blocks) ==
    IF i > Len(items) THEN [text |-> join(<<NL>>, paragraphs), blocks |-> blocks]
    ELSE
        LET item == items[i]
        IN  IF item.t = "str"
            THEN coerce_desc_loop_keep_blank(items, i + 1,
                    Append(paragraphs, strip(item.s)), blocks)
            ELSE IF item.t = "obj"
            THEN coerce_desc_loop_keep_blank(items, i + 1, paragraphs,
                    blocks \o block_from_mapping(item, <<i - 1>>))
            ELSE coerce_desc_loop_keep_blank(items, i + 1, paragraphs, blocks)

\* The loop of lines 439-447 from item i on: paragraphs and blocks so far.
RECURSIVE coerce_desc_loop(_, _, _, _)
coerce_desc_loop(items, i, paragraphs, blocks) ==
    IF i > Len(items) THEN [text |-> join(<<NL>>, paragraphs), blocks |-> blocks]
    ELSE
        LET item == items[i]
        IN  IF item.t = "str"
            THEN LET cleaned == strip(item.s)
                 IN  coerce_desc_loop(items, i + 1,
                        IF cleaned # <<>> THEN Append(paragraphs, cleaned)
                                          ELSE paragraphs,
                        blocks)
            ELSE IF item.t = "obj"
            THEN coerce_desc_loop(items, i + 1, paragraphs,
                    blocks \o block_from_mapping(item, <<i - 1>>))
            ELSE coerce_desc_loop(items, i + 1, paragraphs, blocks)

coerce_desc_value(value) ==
    CASE value.t = "null" -> [text |-> <<>>, blocks |-> <<>>]
      [] value.t = "str" -> [text |-> strip(value.s), blocks |-> <<>>]
      [] value.t = "num" -> [text |-> PyStr(value), blocks |-> <<>>]
      [] value.t = "list" -> coerce_desc_loop(value.items, 1, <<>>, <<>>)
      [] value.t = "obj" ->
            [text |-> <<>>, blocks |-> block_from_mapping(value, <<>>)]

\* Mutant of coerce_blocks_loop: the default title counts the blocks made
\* so far, not the items of the list.
RECURSIVE coerce_blocks_loop_count_blocks(_, _, _)
coerce_blocks_loop_count_blocks(items, i, blocks) ==
    IF i > Len(items) THEN blocks
    ELSE
        LET item == items[i]
        IN  IF item.t = "obj"
            THEN coerce_blocks_loop_count_blocks(items, i + 1,
                    blocks \o block_from_mapping(item, <<Len(blocks)>>))
            ELSE IF item.t = "str"
            THEN LET text == strip(item.s)
                 IN  coerce_blocks_loop_count_blocks(items, i + 1,
                        IF text # <<>>
                        THEN Append(blocks,
                                DescriptionBlock(DefaultTitle(Len(blocks)), text))
                        ELSE blocks)
            ELSE coerce_blocks_loop_count_blocks(items, i + 1, blocks)

\* The loop of lines 457-465 from item i on.
RECURSIVE coerce_blocks_loop(_, _, _)
coerce_blocks_loop(items, i, blocks) ==
    IF i > Len(items) THEN blocks
    ELSE
        LET item == items[i]
        IN  IF item.t = "obj"
            THEN coerce_blocks_loop(items, i + 1,
                    blocks \o block_from_mapping(item, <<i - 1>>))
            ELSE IF item.t = "str"
            THEN LET text == strip(item.s)
                 IN  coerce_blocks_loop(items, i + 1,
                        IF text # <<>>
                        THEN Append(blocks, DescriptionBlock(DefaultTitle(i - 1), text))
                        ELSE blocks)
            ELSE coerce_blocks_loop(items, i + 1, blocks)

coerce_blocks(value) ==
    CASE value.t = "list" -> coerce_blocks_loop(value.items, 1, <<>>)
      [] value.t = "obj" -> block_from_mapping(value, <<>>)
      [] OTHER -> <<>>

---------------------------------------------------------------------------
(* MetadataCodec: parsing *)

\* The two metadata file names, 信息.json and 信息.txt.
JSON_NAME == "xinxi.json"
TXT_NAME == "xinxi.txt"
MetadataNames == <<JSON_NAME, TXT_NAME>>

\* path.suffix.lower() == ".json"
IsJsonSuffix(file_name) == file_name = JSON_NAME

\* The labels 名称： 介绍： 价格： : two characters and the fullwidth colon,
\* each written by its pinyin name.
Colon == "colon"
NameLabel == <<"ming", "cheng", Colon>>
DescLabel == <<"jie", "shao", Colon>>
PriceLabel == <<"jia", "ge", Colon>>

startswith(s, prefix) ==
    Len(s) >= Len(prefix) /\ SubSeq(s, 1, Len(prefix)) = prefix

\* line.split(Colon, 1)[1].strip(): the trimmed text after the first colon.
AfterColon(line) ==
    LET first == SetMin({i \in 1..Len(line) : line[i] = Colon})
    IN  strip(SubSeq(line, first + 1, Len(line)))

\* Mutant of parse_legacy_loop: a blank line ends the description.
RECURSIVE parse_legacy_loop_blank_ends(_, _, _, _, _, _)
parse_legacy_loop_blank_ends(lines, i, name, price, description_lines, collecting_desc) ==
    IF i > Len(lines)
    THEN [name |-> name, price |-> price, description_lines |-> description_lines]
    ELSE
        LET line == strip(lines[i])
        IN  IF line = <<>>
            THEN parse_legacy_loop_blank_ends(lines, i + 1, name, price,
                    description_lines, FALSE)
            ELSE IF startswith(line, NameLabel)
            THEN parse_legacy_loop_blank_ends(lines, i + 1, AfterColon(line), price,
                    description_lines, FALSE)
            ELSE IF startswith(line, DescLabel)
            THEN parse_legacy_loop_blank_ends(lines, i + 1, name, price,
                    <<AfterColon(line)>>, TRUE)
            ELSE IF startswith(line, PriceLabel)
            THEN parse_legacy_loop_blank_ends(lines, i + 1, name, AfterColon(line),
                    description_lines, FALSE)
            ELSE IF collecting_desc
            THEN parse_legacy_loop_blank_ends(lines, i + 1, name, price,
                    Append(description_lines, line), collecting_desc)
            ELSE parse_legacy_loop_blank_ends(lines, i + 1, name, price,
                    description_lines, collecting_desc)

\* The loop of lines 497-513 from line i on.
RECURSIVE parse_legacy_loop(_, _, _, _, _, _)
parse_legacy_loop(lines, i, name, price, description_lines, collecting_desc) ==
    IF i > Len(lines)
    THEN [name |-> name, price |-> price, description_lines |-> description_lines]
    ELSE
        LET line == strip(lines[i])
        IN  IF line = <<>>
            THEN parse_legacy_loop(lines, i + 1, name, price,
                    IF collecting_desc THEN Append(description_lines, <<>>)
                                       ELSE description_lines,
                    collecting_desc)
            ELSE IF startswith(line, NameLabel)
            THEN parse_legacy_loop(lines, i + 1, AfterColon(line), price,
                    description_lines, FALSE)
            ELSE IF startswith(line, DescLabel)
            THEN parse_legacy_loop(lines, i + 1, name, price,
                    <<AfterColon(line)>>, TRUE)
            ELSE IF startswith(line, PriceLabel)
            THEN parse_legacy_loop(lines, i + 1, name, AfterColon(line),
                    description_lines, FALSE)
            ELSE IF collecting_desc
            THEN parse_legacy_loop(lines, i + 1, name, price,
                    Append(description_lines, line), collecting_desc)
            ELSE parse_legacy_loop(lines, i + 1, name, price,
                    description_lines, collecting_desc)

parse_legacy_metadata(text) ==
    LET r == parse_legacy_loop(splitlines(text), 1, <<>>, <<>>, <<>>, FALSE)
        kept == SelectSeq(r.description_lines,
                          LAMBDA part : strip(part) # <<>> \/ part = <<>>)
    IN  [name |-> r.name,
         price |-> r.price,
         description |-> strip(join(<<NL>>, kept)),
         description_blocks |-> <<>>]

\* data.get(key, ""): the value when the key is present, else "".
getOrEmpty(m, k) == IF k \in DOMAIN m THEN m[k] ELSE JStr(<<>>)

\* Mutant of normalize_metadata: the blocks of highlights come first.
normalize_metadata_highlights_first(data) ==
    LET name == strip(PyStr(getOrEmpty(data.kv, "name")))
        price == strip(PyStr(getOrEmpty(data.kv, "price")))
        coerced == coerce_desc_value(get(data.kv, "description"))
        desc_text == IF coerced.text = <<>> /\ get(data.kv, "desc").t = "str"
                     THEN strip(data.kv["desc"].s)
                     ELSE coerced.text
        blocks == coerce_blocks(get(data.kv, "highlights"))
                    \o coerced.blocks
                    \o coerce_blocks(get(data.kv, "description_blocks"))
                    \o coerce_blocks(get(data.kv, "sections"))
    IN  [name |-> name,
         price |-> price,
         description |-> desc_text,
         description_blocks |-> blocks]

\* data is a dict (a non-dict raises, see parse_metadata_file).
normalize_metadata(data) ==
    LET name == strip(PyStr(getOrEmpty(data.kv, "name")))
        price == strip(PyStr(getOrEmpty(data.kv, "price")))
        coerced == coerce_desc_value(get(data.kv, "description"))
        desc_text == IF coerced.text = <<>> /\ get(data.kv, "desc").t = "str"
                     THEN strip(data.kv["desc"].s)
                     ELSE coerced.text
        blocks == coerced.blocks
                    \o coerce_blocks(get(data.kv, "description_blocks"))
                    \o coerce_blocks(get(data.kv, "sections"))
                    \o coerce_blocks(get(data.kv, "highlights"))
    IN  [name |-> name,
         price |-> price,
         description |-> desc_text,
         description_blocks |-> blocks]

\* The content of a metadata file is [k |-> "json", v |-> value] for the
\* JSON text of value, or [k |-> "text", s |-> chars] for any other text;
\* such a text is never valid JSON.  json.loads of JSON text is its value.
JsonFile(value) == [k |-> "json", v |-> value]
TextFile(chars) == [k |-> "text", s |-> chars]

\* A file that exists but cannot be read (OSError), one whose bytes are not
\* UTF-8 (UnicodeDecodeError, a ValueError), and no file at all.
Unreadable == [k |-> "unreadable"]
Undecodable == [k |-> "undecodable"]
\* A file of JSON arrays nested deeper than the recursion limit of the
\* interpreter ([[[[...): json.loads raises RecursionError on it.
DeepJson == [k |-> "deep"]
NoFile == [k |-> "none"]

\* The exception a call raises: its type and message.
Raise(exc, msg) == [ok |-> FALSE, exc |-> exc, err |-> msg]
Failure(msg) == Raise("ValueError", msg)

\* The text of a JSON value that is not an object, read as legacy text: no
\* line of it starts with a label.
JsonText == <<"json", "text">>

\* The result is a failure (the ValueError raised) or the normalised
\* metadata with the raw metadata: the dict, or the trimmed legacy text.
parse_metadata_file(file_name, file) ==
    IF file.k = "unreadable" THEN Failure("cannot read the metadata file")
    ELSE IF file.k = "undecodable" THEN Raise("ValueError", "invalid utf-8")
    ELSE IF file.k = "deep"
    THEN IF IsJsonSuffix(file_name)
         THEN Raise("RecursionError", "maximum recursion depth exceeded")
         ELSE [ok |-> TRUE, meta |-> parse_legacy_metadata(JsonText),
               raw |-> JStr(JsonText)]
    ELSE IF file.k = "text"
    THEN LET text == strip(file.s)
         IN  IF text = <<>> THEN Failure("empty metadata file")
             ELSE IF IsJsonSuffix(file_name) \/ startswith(lstrip(text), <<"{">>)
             THEN Failure("JSON decode error")
             ELSE [ok |-> TRUE, meta |-> parse_legacy_metadata(text), raw |-> JStr(text)]
    ELSE IF file.v.t # "obj" /\ ~IsJsonSuffix(file_name)
         THEN [ok |-> TRUE, meta |-> parse_legacy_metadata(JsonText),
               raw |-> JStr(JsonText)]
    ELSE IF file.v.t # "obj"
         THEN Failure("JSON root is not an object")
         ELSE [ok |-> TRUE, meta |-> normalize_metadata(file.v), raw |-> file.v]

---------------------------------------------------------------------------
(* MetadataCodec: serialising *)

\* The loop of lines 554-559 from line i on.
RECURSIVE split_paragraphs_loop(_, _, _, _)
split_paragraphs_loop(lines, i, blocks, current) ==
    IF i > Len(lines)
    THEN IF current # <<>> THEN Append(blocks, join(<<SP>>, current)) ELSE blocks
    ELSE IF strip(lines[i]) # <<>>
    THEN split_paragraphs_loop(lines, i + 1, blocks, Append(current, strip(lines[i])))
    ELSE IF current # <<>>
    THEN split_paragraphs_loop(lines, i + 1, Append(blocks, join(<<SP>>, current)), <<>>)
    ELSE split_paragraphs_loop(lines, i + 1, blocks, current)

split_paragraphs(text) ==
    IF text = <<>> THEN <<>>
    ELSE split_paragraphs_loop(splitlines(text), 1, <<>>, <<>>)

\* Mutant of convert_desc_for_json: the shape of the old value is ignored.
convert_desc_always_scalar(existing_value, text) == JStr(strip(text))

convert_desc_for_json(existing_value, text) ==
    LET stripped == strip(text)
    IN  IF existing_value.t = "list"
        THEN LET paragraphs == split_paragraphs(stripped)
             IN  JList([i \in 1..Len(paragraphs) |-> JStr(paragraphs[i])])
        ELSE JStr(stripped)

\* dict item assignment: payload[key] = value.
SetItem(m, key, value) ==
    [k \in DOMAIN m \cup {key} |-> IF k = key THEN value ELSE m[k]]

prepare_json_payload(raw_meta, data) ==
    LET p0 == IF raw_meta.t = "obj" THEN raw_meta.kv ELSE <<>>
        p1 == SetItem(p0, "name", JStr(data.name))
        p2 == SetItem(p1, "price", JStr(data.price))
        p3 == SetItem(p2, "description",
                      convert_desc_for_json(get(p2, "description"), data.desc))
    IN  IF "desc" \in DOMAIN p3 THEN SetItem(p3, "desc", JStr(data.desc)) ELSE p3

build_legacy_text(data) ==
    NameLabel \o data.name \o <<NL>> \o DescLabel \o data.desc \o <<NL>>
        \o PriceLabel \o data.price \o <<NL>>

\* The content the metadata file holds after the write.
write_metadata(file_name, data, raw_meta) ==
    IF IsJsonSuffix(file_name)
    THEN JsonFile(JObj(prepare_json_payload(raw_meta, data)))
    ELSE TextFile(build_legacy_text(data))

---------------------------------------------------------------------------
(* CatalogRenderer.  A rendered fragment is a sequence of tokens: a literal *)
(* piece of the template (markup) is one token, text derived from an entry *)
(* is one token per character.                                            *)

\* str.replace(old, new) for a one-character old.
RECURSIVE replace(_, _, _)
replace(s, old, new) ==
    IF s = <<>> THEN <<>>
    ELSE (IF Head(s) = old THEN new ELSE <<Head(s)>>) \o replace(Tail(s), old, new)

AMP == <<"&", "a", "m", "p", ";">>
LT == <<"&", "l", "t", ";">>
GT == <<"&", "g", "t", ";">>
QUOT == <<"&", "q", "u", "o", "t", ";">>
APOS == <<"&", "#", "x", "2", "7", ";">>

\* Mutant of html_escape: quote=False, the two quote characters are kept.
html_escape_no_quote(s) ==
    replace(replace(replace(s, "&", AMP), "<", LT), ">", GT)

\* html.escape(s, quote=True): & first, then < > " '.
html_escape(s) ==
    replace(replace(replace(replace(replace(s, "&", AMP), "<", LT), ">", GT),
                    "\"", QUOT), "'", APOS)

render_inline(value) == IF value # <<>> THEN html_escape(value) ELSE <<>>

BR == "<br />"

render_paragraph(value) ==
    IF value = <<>> THEN <<>> ELSE replace(html_escape(value), NL, <<BR>>)

\* The literal paragraph <p>暂无介绍。</p> of line 598.
Placeholder == "<p>zanwu jieshao.</p>"
\* The fallback heading 亮点 of line 591.
FallbackTitle == <<"liang", "dian">>

\* The card of one block (line 591).
Card(block) ==
    <<"<article>", "<h3>">>
        \o (IF render_inline(block.title) # <<>>
            THEN render_inline(block.title) ELSE FallbackTitle)
        \o <<"</h3>", "<p>">> \o render_paragraph(block.content)
        \o <<"</p>", "</article>">>

\* "".join of the cards of the blocks that have content, from block i on.
RECURSIVE Cards(_, _)
Cards(description_blocks, i) ==
    IF i > Len(description_blocks) THEN <<>>
    ELSE (IF description_blocks[i].content # <<>>
          THEN Card(description_blocks[i]) ELSE <<>>)
            \o Cards(description_blocks, i + 1)

\* Mutant of build_description_html: the grid is emitted for any entry that
\* has no plain description, and the placeholder never.
build_description_html_empty_grid(entry) ==
    LET para == IF entry.description # <<>>
                THEN <<"<p>">> \o render_paragraph(entry.description) \o <<"</p>">>
                ELSE <<>>
        cards == Cards(entry.description_blocks, 1)
    IN  IF cards # <<>> \/ para = <<>>
        THEN para \o <<"<div class='desc-grid'>">> \o cards \o <<"</div>">>
        ELSE para

build_description_html(entry) ==
    LET para == IF entry.description # <<>>
                THEN <<"<p>">> \o render_paragraph(entry.description) \o <<"</p>">>
                ELSE <<>>
        cards == IF entry.description_blocks # <<>>
                 THEN Cards(entry.description_blocks, 1) ELSE <<>>
        grid == IF cards # <<>>
                THEN <<"<div class='desc-grid'>">> \o cards \o <<"</div>">>
                ELSE <<>>
    IN  IF para \o grid = <<>> THEN <<Placeholder>> ELSE para \o grid

\* urllib's quote of one character of a path, as Path.as_uri applies it.
QuoteChar(c) ==
    CASE c = "<" -> "%3C" [] c = ">" -> "%3E" [] c = "&" -> "%26"
      [] c = "\"" -> "%22" [] c = "'" -> "%27" [] c = NL -> "%0A"
      [] c = SP -> "%20" [] OTHER -> c

\* The four fixed image files 主图正面.jpg 主图背面.jpg 细节图一.jpg 细节图二.jpg.
ImageKeys == <<"front", "back", "detail1", "detail2">>
ImageFile ==
    [front |-> "zhutu_zhengmian.jpg", back |-> "zhutu_beimian.jpg",
     detail1 |-> "xijietu_yi.jpg", detail2 |-> "xijietu_er.jpg"]

\* to_uri (lines 176-188) of the image `key` of the folder `slug`: a file
\* URI, or a data URI of the bytes; "" for an image outside `readable`,
\* whose access raises OSError.
to_uri(slug, key, use_file_uri, readable) ==
    IF key \notin readable THEN <<>>
    ELSE IF use_file_uri
    THEN <<"file:///root/template/">> \o [i \in 1..Len(slug) |-> QuoteChar(slug[i])]
            \o <<"/", ImageFile[key]>>
    ELSE <<"data:image/jpg;base64,", "base64 of the bytes">>

\* The caption of one image in its alt text: 主图正面 主图背面 细节一 细节二.
AltCaption ==
    [front |-> " zhutu zhengmian", back |-> " zhutu beimian",
     detail1 |-> " xijie yi", detail2 |-> " xijie er"]

Figure(entry, key, use_file_uri, readable) ==
    <<"<figure><img src=\"">> \o to_uri(entry.slug, key, use_file_uri, readable)
        \o <<"\" alt=\"">> \o render_inline(entry.name) \o <<AltCaption[key]>>
        \o <<"\" />">>
        \o (IF key \in {"detail1", "detail2"}
            THEN <<"<figcaption>DETAIL</figcaption>">> ELSE <<>>)
        \o <<"</figure>">>

render_page(entry, use_file_uri, readable) ==
    <<"<style>...</style>", "<section class='page'>", "<div class='info'>",
      "<div>", "<div class='tag'>">>
        \o render_inline(entry.slug)
        \o <<"</div>", "<h2>">> \o render_inline(entry.name) \o <<"</h2>">>
        \o build_description_html(entry)
        \o <<"</div>", "<div class='price'>", "jiage yuan">>
        \o render_inline(entry.price)
        \o <<"</div>", "</div>", "<div class='photos'>">>
        \o Figure(entry, "front", use_file_uri, readable)
        \o Figure(entry, "back", use_file_uri, readable)
        \o Figure(entry, "detail1", use_file_uri, readable)
        \o Figure(entry, "detail2", use_file_uri, readable)
        \o <<"</div>", "</section>">>

---------------------------------------------------------------------------
(* CatalogStore.  The template directory is a function from the names it  *)
(* holds to what stands under each name: a folder with its two metadata   *)
(* files and its four images, or a plain file.  An image is named by the  *)
(* picture it holds, "none" when the file is missing.                     *)

ImageKeySet == {ImageKeys[i] : i \in 1..Len(ImageKeys)}
NoImages == [k \in ImageKeySet |-> "none"]
Folder(json, txt, images) ==
    [isdir |-> TRUE, json |-> json, txt |-> txt, images |-> images]
PlainFile == [isdir |-> FALSE, json |-> NoFile, txt |-> NoFile, images |-> NoImages]

\* The folder name 模板 that load skips.
Reserved == <<"mu", "ban">>
\* The folder name 新婚纱 of an entry created under a blank name.
DefaultFolder == <<"xin", "hun", "sha">>

\* The code point of a character of a folder name.
Ord(c) ==
    CASE c = "-" -> 45 [] c = "." -> 46
      [] c \in {Digit[i] : i \in 1..10} ->
            47 + (CHOOSE i \in 1..10 : Digit[i] = c)
      [] c = "a" -> 97 [] c = "b" -> 98 [] c = "c" -> 99
      [] c = "hun" -> 23130 [] c = "xin" -> 26032 [] c = "ban" -> 26495
      [] c = "mu" -> 27169 [] c = "sha" -> 32433

\* Path.__lt__ on two names of one directory: str order by code points.
RECURSIVE LexLess(_, _)
LexLess(s, t) ==
    IF t = <<>> THEN FALSE
    ELSE IF s = <<>> THEN TRUE
    ELSE IF Head(s) # Head(t) THEN Ord(Head(s)) < Ord(Head(t))
    ELSE LexLess(Tail(s), Tail(t))

\* Mutant of sorted_iterdir: the names in descending order.
RECURSIVE iterdir_descending(_)
iterdir_descending(names) ==
    IF names = {} THEN <<>>
    ELSE LET last == CHOOSE n \in names : \A m \in names \ {n} : LexLess(m, n)
         IN  <<last>> \o iterdir_descending(names \ {last})

\* sorted(template_root.iterdir()) over the names of the directory.
RECURSIVE sorted_iterdir(_)
sorted_iterdir(names) ==
    IF names = {} THEN <<>>
    ELSE LET first == CHOOSE n \in names : \A m \in names \ {n} : LexLess(n, m)
         IN  <<first>> \o sorted_iterdir(names \ {first})

\* The first metadata file that exists, parsed; its name is kept as the
\* entry's metadata_path.
load_metadata(folder) ==
    IF folder.json.k # "none"
    THEN [res |-> parse_metadata_file(JSON_NAME, folder.json), path |-> JSON_NAME]
    ELSE IF folder.txt.k # "none"
    THEN [res |-> parse_metadata_file(TXT_NAME, folder.txt), path |-> TXT_NAME]
    ELSE [res |-> Failure("missing metadata file"), path |-> TXT_NAME]

\* The names of the image files that do not exist, in the order of lines
\* 121-126.
MissingImages(images) ==
    SelectSeq(ImageKeys, LAMBDA k : images[k] = "none")

\* The front, back, detail1 and detail2 paths of an entry are the fixed
\* file names under its folder, so the slug stands for them.
BridalEntry(slug, metadata, meta_path, raw_meta) ==
    [slug |-> slug,
     name |-> IF metadata.name # <<>> THEN metadata.name ELSE slug,
     description |-> metadata.description,
     price |-> metadata.price,
     description_blocks |-> metadata.description_blocks,
     metadata_path |-> meta_path,
     raw_metadata |-> raw_meta]

Warning(slug, msg) == [kind |-> "warning", slug |-> slug, msg |-> msg]
Critical(slug, msg) == [kind |-> "critical", slug |-> slug, msg |-> msg]

\* What load_entries does with a folder whose metadata was looked up: a
\* ValueError is a warning, any other exception leaves the loop, missing
\* images are a warning, and else the folder is an entry.
folder_outcome(name, loaded, missing) ==
    IF ~loaded.res.ok
    THEN IF loaded.res.exc = "ValueError"
         THEN [kind |-> "warn", warning |-> Warning(name, loaded.res.err)]
         ELSE [kind |-> "abort"]
    ELSE IF missing # <<>>
    THEN [kind |-> "warn", warning |-> Warning(name, "missing images")]
    ELSE [kind |-> "entry",
          entry |-> BridalEntry(name, loaded.res.meta, loaded.path, loaded.res.raw)]

\* One turn of the loop of load_entries (lines 103-150).
load_folder(name, folder) ==
    IF ~folder.isdir \/ name = Reserved \/ startswith(name, <<".">>)
    THEN [kind |-> "skip"]
    ELSE folder_outcome(name, load_metadata(folder), MissingImages(folder.images))

RECURSIVE load_loop(_, _, _, _)
RECURSIVE load_step(_, _, _, _, _)
load_step(d, names, found, warnings, r) ==
    IF r.kind = "abort"
    THEN [aborted |-> TRUE, entries |-> found, warnings |-> warnings]
    ELSE IF r.kind = "warn"
    THEN load_loop(d, Tail(names), found, Append(warnings, r.warning))
    ELSE IF r.kind = "entry"
    THEN load_loop(d, Tail(names), Append(found, r.entry), warnings)
    ELSE load_loop(d, Tail(names), found, warnings)

load_loop(d, names, found, warnings) ==
    IF names = <<>>
    THEN [aborted |-> FALSE, entries |-> found, warnings |-> warnings]
    ELSE load_step(d, names, found, warnings,
                   load_folder(Head(names), d[Head(names)]))

\* The list load_entries builds from the directory d and the warnings it
\* shows; aborted when an exception other than ValueError leaves the loop.
load_entries(d) == load_loop(d, sorted_iterdir(DOMAIN d), <<>>, <<>>)

RECURSIVE unique_loop(_, _, _)
unique_loop(names, sanitized, idx) ==
    LET candidate == sanitized \o <<"-">> \o IntStr(idx)
    IN  IF candidate \in names THEN unique_loop(names, sanitized, idx + 1)
        ELSE candidate

\* The name of the folder a create makes, given the names that exist.
make_unique_dir(names, base_name) ==
    LET sanitized == IF strip(base_name) # <<>> THEN strip(base_name)
                     ELSE DefaultFolder
    IN  IF sanitized \in names THEN unique_loop(names, sanitized, 1)
        ELSE sanitized

NoPending == [k \in ImageKeySet |-> ""]
\* The target folder and the data dict of a create or an update (the locals
\* target_dir and data of lines 275-276 and 828-834), the folder alone for
\* a delete; empty for a handler that has neither.
Call(slug, name, price, desc) ==
    [slug |-> slug, name |-> name, price |-> price, desc |-> desc]
NoCall == Call(<<>>, <<>>, <<>>, <<>>)
Slugs(es) == [i \in 1..Len(es) |-> es[i].slug]
\* next(i for i, item in enumerate(entries) if item.slug == slug), -1 or
\* None being written -1.
IndexOfSlug(es, slug) ==
    IF \E i \in 1..Len(es) : es[i].slug = slug
    THEN SetMin({i \in 1..Len(es) : es[i].slug = slug}) - 1
    ELSE -1

\* The directory d without the name n (shutil.rmtree).
Removed(d, n) == [m \in DOMAIN d \ {n} |-> d[m]]

\* Mutant of CopyImages: the copies show only when all four were made.
CopyImages_all_or_nothing(images, picked, upto) ==
    [k \in ImageKeySet |->
        IF picked[k] # "" /\ upto = 4 THEN picked[k] ELSE images[k]]

\* The images of a folder after the copies of the picked files `picked`
\* for the keys before position `upto` of ImageKeys (the order of the
\* mapping of _apply_image_updates, and of lines 278-281).
CopyImages(images, picked, upto) ==
    [k \in ImageKeySet |->
        IF picked[k] # "" /\ (\E i \in 1..upto : ImageKeys[i] = k)
        THEN picked[k] ELSE images[k]]

\* Mutant of RowAfterLoad: the row of the load (0) is kept whatever slug
\* the handler looks for.
RowAfterLoad_first_row(es, slug, index) ==
    IF slug # <<>> THEN 0
    ELSE IF index > Len(es) - 1 THEN Len(es) - 1
    ELSE IF index < 0 THEN 0 ELSE index

\* The row a handler sets after its load of the entries es: the row of
\* the slug it looks for when it names one (apply_editor_changes keeps the
\* row 0 of the load when the slug is gone), else the row `index` brought
\* into the list (delete_entry; 0 for a plain load).
RowAfterLoad(es, slug, index) ==
    IF slug # <<>>
    THEN (IF IndexOfSlug(es, slug) # -1 THEN IndexOfSlug(es, slug) ELSE 0)
    ELSE IF index > Len(es) - 1 THEN Len(es) - 1
    ELSE IF index < 0 THEN 0 ELSE index

\* Mutant of ShowLoaded: the picks of the editor outlive the load.
ShowLoaded_keep_pending(r, slug, index, op) ==
    /\ dialogs' = r.warnings
    /\ lastop' = IF r.aborted THEN "load_aborted" ELSE op
    /\ IF r.aborted
       THEN UNCHANGED <<entries, rows, currentRow, current_entry, pending_files>>
       ELSE /\ entries' = r.entries
            /\ rows' = Slugs(r.entries)
            /\ currentRow' = IF r.entries = <<>> THEN -1
                             ELSE RowAfterLoad(r.entries, slug, index)
            /\ current_entry' =
                IF r.entries = <<>> THEN <<>>
                ELSE <<r.entries[RowAfterLoad(r.entries, slug, index) + 1]>>
            /\ pending_files' = pending_files

\* The end of load_entries (lines 152-166) for the result r of its loop:
\* the list is replaced, the rows are cleared and filled again, and the
\* current row is set; every change of the current row is a
\* render_preview, which loads the entry of that row into the editor and
\* empties pending_files (or clears the editor).  slug and index say which
\* row the calling handler sets after the load; op names that handler.
ShowLoaded(r, slug, index, op) ==
    /\ dialogs' = r.warnings
    /\ lastop' = IF r.aborted THEN "load_aborted" ELSE op
    /\ IF r.aborted
       THEN UNCHANGED <<entries, rows, currentRow, current_entry, pending_files>>
       ELSE /\ entries' = r.entries
            /\ rows' = Slugs(r.entries)
            /\ currentRow' = IF r.entries = <<>> THEN -1
                             ELSE RowAfterLoad(r.entries, slug, index)
            /\ current_entry' =
                IF r.entries = <<>> THEN <<>>
                ELSE <<r.entries[RowAfterLoad(r.entries, slug, index) + 1]>>
            /\ pending_files' = NoPending

\* load_entries as a handler (lines 95-166) on the directory d.
LoadAndSelect(d, slug, index, op) ==
    ShowLoaded(load_entries(d), slug, index, op)

---------------------------------------------------------------------------
(* Inputs of the normaliser *)

StringsUpTo(A, n) == UNION {[1..k -> A] : k \in 0..n}

NormAlphabet == {"a", "b", SP, NL}
NormStrings == StringsUpTo(NormAlphabet, MaxStrLen)
NormNumbers == {0, 7, 12}

\* Values a key of an explored mapping may hold: absent, the empty string, a
\* blank string, a padded text naming the key, and for `value` also numbers.
Absent == [t |-> "absent"]

FieldVals(k) ==
    {Absent, JStr(<<>>), JStr(<<SP>>), JStr(<<SP, k, SP>>)}
        \cup (IF k = "value" THEN {JNum(0), JNum(7)} ELSE {})

Range(f) == {f[i] : i \in DOMAIN f}

\* Every assignment of the keys K, as the dict of the keys that are present.
Dicts(K) ==
    LET All == UNION {FieldVals(k) : k \in K}
        Choices == {f \in [K -> All] : \A k \in K : f[k] \in FieldVals(k)}
    IN  {[k \in {x \in K : f[x] # Absent} |-> f[k]] : f \in Choices}

TitleDicts == Dicts(Range(TitleKeys))
ContentDicts == Dicts(Range(ContentKeys))

TitleSamples == {<<>>, [title |-> JStr(<<"T">>)], [name |-> JStr(<<SP>>), label |-> JNum(7)]}
ContentSamples == {<<>>, [text |-> JStr(<<"x">>)], [value |-> JStr(<<SP, "v", SP>>)]}

\* Every content assignment under a few titles, every title assignment under
\* a few contents.
Mappings ==
    {JObj(c @@ t) : c \in ContentDicts, t \in TitleSamples}
        \cup {JObj(c @@ t) : c \in ContentSamples, t \in TitleDicts}

ItemSamples ==
    { JStr(<<>>), JStr(<<SP>>), JStr(<<"a">>), JStr(<<SP, "b", SP>>),
      JStr(<<"a", NL, "b">>), JNum(7), JNull,
      JObj([text |-> JStr(<<"x">>)]),
      JObj([title |-> JStr(<<"T">>), content |-> JStr(<<SP, "y">>)]),
      JObj([title |-> JStr(<<"T">>)]),
      JObj([text |-> JStr(<<SP>>), value |-> JStr(<<"z">>)]) }

ListsUpTo(S, n) == UNION {{JList(f) : f \in [1..k -> S]} : k \in 0..n}

\* The explored values, with the lists of up to len sample items.
NormInputs(len) ==
    {JNull} \cup {JStr(s) : s \in NormStrings} \cup {JNum(n) : n \in NormNumbers}
        \cup ListsUpTo(ItemSamples, len) \cup Mappings

Positions == {<<>>} \cup {<<i>> : i \in 0..(MaxListLen - 1)}

---------------------------------------------------------------------------
(* Specifications.  Each one runs one part of the program; the variables  *)
(* of the other parts stay idle.                                         *)

NormIdle == nin = JNull /\ nidx = <<>> /\ nop = "idle" /\ nout = <<>>
LegacyIdle == ltext = <<>> /\ lstage = "idle" /\ lout = <<>>
CodecIdle ==
    /\ cname = JSON_NAME /\ cfile = TextFile(<<>>) /\ cstage = "idle"
    /\ centry = <<>> /\ cdata = <<>> /\ cre = <<>>
StoreIdle ==
    /\ dir = <<>> /\ entries = <<>> /\ rows = <<>> /\ currentRow = -1
    /\ current_entry = <<>> /\ pending_files = NoPending /\ dialogs = <<>>
    /\ ops = 0 /\ lastop = "idle" /\ call = NoCall
RenderIdle ==
    /\ rentry = <<>> /\ ruri = FALSE /\ rreadable = {} /\ rstage = "idle"
    /\ rout = <<>>

---------------------------------------------------------------------------
(* Normaliser specification: one input, one call *)

NormInit ==
    /\ nin \in NormInputs(MaxListLen) /\ nidx = <<>> /\ nop = "none" /\ nout = <<>>
    /\ LegacyIdle /\ CodecIdle /\ RenderIdle /\ StoreIdle

CallCoerceDescValue ==
    /\ nop = "none"
    /\ nop' = "coerce_desc_value"
    /\ nout' = coerce_desc_value(nin)
    /\ UNCHANGED <<nin, nidx, legacyVars, codecVars, renderVars, storeVars>>

CallCoerceBlocks ==
    /\ nop = "none"
    /\ nop' = "coerce_blocks"
    /\ nout' = coerce_blocks(nin)
    /\ UNCHANGED <<nin, nidx, legacyVars, codecVars, renderVars, storeVars>>

CallBlockFromMapping ==
    /\ nop = "none"
    /\ nin.t = "obj"
    /\ \E idx \in Positions :
        /\ nidx' = idx
        /\ nout' = block_from_mapping(nin, idx)
    /\ nop' = "block_from_mapping"
    /\ UNCHANGED <<nin, legacyVars, codecVars, renderVars, storeVars>>

NormNext == CallCoerceDescValue \/ CallCoerceBlocks \/ CallBlockFromMapping

SpecNorm == NormInit /\ [][NormNext]_vars

---------------------------------------------------------------------------
(* Legacy codec specification: one legacy text file, parsed *)

LineSamples ==
    { NameLabel \o <<"X">>,
      <<SP>> \o NameLabel \o <<SP, "Y", SP>>,
      DescLabel \o <<"h">>,
      DescLabel,
      DescLabel \o <<"a", Colon, "b">>,
      PriceLabel \o <<"9">>,
      <<"w">>,
      <<"x">> \o NameLabel \o <<"Z">>,
      <<>>,
      <<SP>> }

LegacyInit ==
    /\ \E k \in 0..MaxLines : \E lines \in [1..k -> LineSamples] :
        ltext = join(<<NL>>, lines)
    /\ lstage = "file" /\ lout = <<>>
    /\ NormIdle /\ CodecIdle /\ RenderIdle /\ StoreIdle

ParseLegacyFile ==
    /\ lstage = "file"
    /\ lout' = parse_metadata_file(TXT_NAME, TextFile(ltext))
    /\ lstage' = "parsed"
    /\ UNCHANGED <<ltext, normVars, codecVars, renderVars, storeVars>>

LegacyNext == ParseLegacyFile

SpecLegacy == LegacyInit /\ [][LegacyNext]_vars

---------------------------------------------------------------------------
(* Legacy round-trip specification: the three fields of the edit form are *)
(* written as a legacy file, and the file is parsed                       *)

TripNames ==
    {<<>>, <<"X">>, <<"X", SP, "Y">>, DescLabel \o <<"a">>, <<"a", Colon>>}
TripPrices == {<<"9">>, PriceLabel}
TripLineSamples ==
    {<<"a">>, <<>>, <<SP, "b">>, <<"c", SP>>, PriceLabel \o <<"5">>,
     NameLabel \o <<"Z">>}

\* The fields are trimmed, as save_changes passes them (lines 823-832); the
\* description is any trimmed text of up to MaxLines sample lines.
TripInit ==
    /\ \E k \in 0..MaxLines : \E lines \in [1..k -> TripLineSamples] :
        \E name \in TripNames, price \in TripPrices :
            LET desc == join(<<NL>>, lines)
            IN  /\ strip(desc) = desc
                /\ cdata = [name |-> name, price |-> price, desc |-> desc]
    /\ cname = TXT_NAME /\ cfile = TextFile(<<>>) /\ cstage = "idle"
    /\ centry = <<>> /\ cre = <<>>
    /\ ltext = <<>> /\ lstage = "fields" /\ lout = <<>>
    /\ NormIdle /\ RenderIdle /\ StoreIdle

\* _write_metadata on a path that is not .json: _build_legacy_text.
WriteLegacyFile ==
    /\ lstage = "fields"
    /\ ltext' = build_legacy_text(cdata)
    /\ lstage' = "file"
    /\ UNCHANGED <<lout, normVars, codecVars, renderVars, storeVars>>

TripNext == WriteLegacyFile \/ ParseLegacyFile

SpecLegacyTrip == TripInit /\ [][TripNext]_vars

---------------------------------------------------------------------------
(* Codec specification: one structured metadata file is parsed, written   *)
(* back with edited fields, and parsed again                              *)

CodecItemSamples ==
    { JStr(<<"a">>), JStr(<<SP, "b", SP>>), JStr(<<>>),
      JStr(<<"a", NL, NL, "b">>), JNum(7),
      JObj([text |-> JStr(<<"x">>)]),
      JObj([title |-> JStr(<<"T">>), value |-> JStr(<<"y">>)]) }

\* The explored description values: strings of up to strlen characters,
\* lists of up to listlen sample items, and others.
DescValues(strlen, listlen) ==
    {Absent, JNull, JNum(0), JNum(12)}
        \cup {JStr(s) : s \in StringsUpTo({"a", SP, NL}, strlen)}
        \cup ListsUpTo(CodecItemSamples, listlen)
        \cup {JObj(<<>>), JObj([text |-> JStr(<<"x">>)]),
              JObj([label |-> JStr(<<"T">>), content |-> JStr(<<"y">>)])}

DescKeyValues == {Absent, JStr(<<>>), JStr(<<SP, "d", SP>>), JNum(3)}
NameValues == {Absent, JNull, JNum(7), JStr(<<"A">>), JStr(<<SP, "A", SP>>)}
PriceValues == {Absent, JNum(0), JStr(<<"1">>)}
BlockValues == {Absent, JList(<<JStr(<<"p">>), JObj([text |-> JStr(<<"q">>)])>>)}
SectionValues == {Absent, JObj([name |-> JStr(<<"S">>), desc |-> JStr(<<"r">>)])}
HighlightValues == {Absent, JList(<<JObj([title |-> JStr(<<"H">>)]), JStr(<<"s">>)>>)}
DescSamples ==
    { Absent, JStr(<<"a">>), JList(<<JStr(<<"a">>), JStr(<<"b">>)>>),
      JObj([text |-> JStr(<<"x">>)]) }

\* The dict of the keys of f that are present.
Present(f) == [k \in {x \in DOMAIN f : f[x] # Absent} |-> f[k]]

\* Every description value and desc value under one name and price, with a
\* key the program does not know.
DocsByDescription(strlen, listlen) ==
    { JObj(Present([name |-> JStr(<<"A">>), price |-> JStr(<<"1">>),
                    description |-> d, desc |-> e, sku |-> JNum(7)]))
      : d \in DescValues(strlen, listlen), e \in DescKeyValues }

\* Every name, price and block field under a few description values.
DocsByField ==
    { JObj(Present([name |-> n, price |-> p, description |-> d,
                    description_blocks |-> b, sections |-> c, highlights |-> h]))
      : n \in NameValues, p \in PriceValues, d \in DescSamples,
        b \in BlockValues, c \in SectionValues, h \in HighlightValues }

CodecInit ==
    /\ \/ cname = JSON_NAME /\ cfile \in {JsonFile(d) : d \in DocsByDescription(MaxStrLen, MaxListLen) \cup DocsByField}
       \/ cname = TXT_NAME /\ cfile \in {JsonFile(d) : d \in DocsByField}
    /\ cstage = "file" /\ centry = <<>> /\ cdata = <<>> /\ cre = <<>>
    /\ NormIdle /\ LegacyIdle /\ RenderIdle /\ StoreIdle

\* _parse_metadata_file on the file as found.
CodecParse ==
    /\ cstage = "file"
    /\ centry' = parse_metadata_file(cname, cfile)
    /\ cstage' = "parsed"
    /\ UNCHANGED <<cname, cfile, cdata, cre, normVars, legacyVars, renderVars, storeVars>>

EditedNames == {<<"B">>}
EditedPrices == {<<"2">>}
EditedDescs == {<<>>, <<"c">>, <<"c", NL, "d">>, <<"c", NL, NL, "d">>}

\* _write_metadata with the fields of the edit form: each one as parsed or
\* retyped; name and price are never empty (save_changes, lines 823-827).
CodecWrite ==
    /\ cstage = "parsed"
    /\ centry.ok
    /\ \E name \in ({centry.meta.name} \cup EditedNames) \ {<<>>},
          price \in ({centry.meta.price} \cup EditedPrices) \ {<<>>},
          desc \in {centry.meta.description} \cup EditedDescs :
        LET data == [name |-> name, price |-> price, desc |-> desc]
        IN  /\ cdata' = data
            /\ cfile' = write_metadata(cname, data, centry.raw)
    /\ cstage' = "written"
    /\ UNCHANGED <<cname, centry, cre, normVars, legacyVars, renderVars, storeVars>>

\* _parse_metadata_file on the file as written.
CodecReparse ==
    /\ cstage = "written"
    /\ cre' = parse_metadata_file(cname, cfile)
    /\ cstage' = "reparsed"
    /\ UNCHANGED <<cname, cfile, centry, cdata, normVars, legacyVars, renderVars, storeVars>>

CodecNext == CodecParse \/ CodecWrite \/ CodecReparse

SpecCodec == CodecInit /\ [][CodecNext]_vars

---------------------------------------------------------------------------
(* Renderer specification: one entry, rendered once under one image policy *)

RenderAlphabet == {"a", "<", ">", "&", "\"", "'", NL}
RenderStrings(len) == StringsUpTo(RenderAlphabet, len)

SampleBlock == DescriptionBlock(<<"\"", "a">>, <<"<", NL, "&">>)
EmptyBlock == DescriptionBlock(<<"a">>, <<>>)
BlockLists ==
    {<<>>, <<EmptyBlock>>, <<SampleBlock>>, <<SampleBlock, EmptyBlock, SampleBlock>>}

BaseEntry ==
    [slug |-> <<"a">>, name |-> <<"a">>, price |-> <<"a">>,
     description |-> <<"a">>, description_blocks |-> <<>>]

\* Entries that differ from the base entry in one text of up to len
\* characters, or in the description and the list of blocks.
RenderEntries(len) ==
    {[BaseEntry EXCEPT !.slug = s] : s \in RenderStrings(len) \ {<<>>}}
        \cup {[BaseEntry EXCEPT !.name = s] : s \in RenderStrings(len)}
        \cup {[BaseEntry EXCEPT !.price = s] : s \in RenderStrings(len)}
        \cup {[BaseEntry EXCEPT !.description = s, !.description_blocks = bs] :
                s \in RenderStrings(len), bs \in BlockLists}
        \cup {[BaseEntry EXCEPT !.description = d,
                                !.description_blocks = <<DescriptionBlock(s, <<"a">>)>>] :
                s \in RenderStrings(len), d \in {<<>>, <<"a">>}}
        \cup {[BaseEntry EXCEPT !.description = d,
                                !.description_blocks =
                                    <<SampleBlock, DescriptionBlock(<<>>, s)>>] :
                s \in RenderStrings(len), d \in {<<>>, <<"a">>}}

ReadableSets == {{}, {"front", "detail1"}, {"front", "back", "detail1", "detail2"}}

RenderInit ==
    /\ rentry \in RenderEntries(MaxStrLen) /\ ruri = FALSE /\ rreadable = {}
    /\ rstage = "ready" /\ rout = <<>>
    /\ NormIdle /\ LegacyIdle /\ CodecIdle /\ StoreIdle

\* render_page(entry), images inlined as data URIs
RenderInlinePage ==
    /\ rstage = "ready"
    /\ \E readable \in ReadableSets :
        /\ rreadable' = readable
        /\ rout' = render_page(rentry, FALSE, readable)
    /\ ruri' = FALSE
    /\ rstage' = "done"
    /\ UNCHANGED <<rentry, normVars, legacyVars, codecVars, storeVars>>

\* render_page(entry, use_file_uri=True), as export_html calls it
RenderFileUriPage ==
    /\ rstage = "ready"
    /\ \E readable \in ReadableSets :
        /\ rreadable' = readable
        /\ rout' = render_page(rentry, TRUE, readable)
    /\ ruri' = TRUE
    /\ rstage' = "done"
    /\ UNCHANGED <<rentry, normVars, legacyVars, codecVars, storeVars>>

RenderNext == RenderInlinePage \/ RenderFileUriPage

SpecRender == RenderInit /\ [][RenderNext]_vars

---------------------------------------------------------------------------
(* Page specification: one structured metadata file is parsed, and the    *)
(* entry load_entries builds from it is rendered                          *)

ListDescValues ==
    { JList(<<JObj([text |-> JStr(<<"x">>)]), JStr(<<"a">>),
              JObj([title |-> JStr(<<"T">>), value |-> JStr(<<"y">>)])>>),
      JList(<<JStr(<<"a">>), JObj([title |-> JStr(<<"T">>)]),
              JObj([content |-> JStr(<<"z", NL, "<">>)])>>) }

\* Every name, price and block field under a few description values, and
\* the block fields under list descriptions that hold objects.
PageDocs ==
    DocsByField
        \cup { JObj(Present([name |-> JStr(<<"A">>), price |-> JStr(<<"1">>),
                             description |-> d, description_blocks |-> b,
                             sections |-> c, highlights |-> h]))
               : d \in ListDescValues, b \in BlockValues, c \in SectionValues,
                 h \in HighlightValues }

PageInit ==
    /\ cname \in {JSON_NAME, TXT_NAME}
    /\ cfile \in {JsonFile(d) : d \in PageDocs}
    /\ cstage = "file" /\ centry = <<>> /\ cdata = <<>> /\ cre = <<>>
    /\ NormIdle /\ LegacyIdle /\ RenderIdle /\ StoreIdle

\* Lines 116-149 and render_page: the entry of the folder a built from the
\* parsed metadata, rendered for the preview or for the export.
RenderParsed ==
    /\ cstage = "parsed"
    /\ centry.ok
    /\ rstage = "idle"
    /\ \E use_file_uri \in BOOLEAN :
        LET entry == BridalEntry(<<"a">>, centry.meta, cname, centry.raw)
        IN  /\ rentry' = entry
            /\ ruri' = use_file_uri
            /\ rout' = render_page(entry, use_file_uri, ImageKeySet)
    /\ rreadable' = ImageKeySet
    /\ rstage' = "done"
    /\ UNCHANGED <<normVars, legacyVars, codecVars, storeVars>>

PageNext == CodecParse \/ RenderParsed

SpecPage == PageInit /\ [][PageNext]_vars

---------------------------------------------------------------------------
(* Store specification: the handlers of the window run in any order on a  *)
(* template directory, up to MaxOps of them                               *)

MaxOps == 3

Others == <<normVars, legacyVars, codecVars, renderVars>>

Pictures == {"picked"}
PickKeys == {"front", "detail2"}
AllImages(pic) == [k \in ImageKeySet |-> pic]

\* The 重新读取 button: load_entries.  A reload is not counted in ops: it
\* leads to the one state the directory fixes.
Reload ==
    /\ LoadAndSelect(dir, <<>>, 0, "load")
    /\ call' = NoCall
    /\ UNCHANGED <<dir, ops, Others>>

CreateNames == {<<"a">>, <<"b">>, Reserved}
CreatePrices == {<<"1">>}
CreateDescs == {<<"d", NL, NL, "e">>}
CreateFailures == {0, 2, 5}

\* create_entry with the dialog accepted for name, price and desc and four
\* picked images.  fail = 0: every step succeeds; fail = 1..4: the copy of
\* that image raises; fail = 5: the write of the metadata raises.  The
\* exception is not caught: the handler ends there, without a reload.
CreateEntry ==
    /\ ops < MaxOps
    /\ \E name \in CreateNames, price \in CreatePrices, desc \in CreateDescs,
          fail \in CreateFailures :
        LET target_dir == make_unique_dir(DOMAIN dir, name)
            images == CopyImages(NoImages, AllImages("new"),
                                 IF fail = 0 THEN 4 ELSE IF fail = 5 THEN 4
                                 ELSE fail - 1)
            metadata == JObj([name |-> JStr(name), description |-> JStr(desc),
                              price |-> JStr(price)])
        IN  /\ call' = Call(target_dir, name, price, desc)
            /\ IF fail = 0
               THEN LET d == SetItem(dir, target_dir,
                                     Folder(JsonFile(metadata), NoFile, images))
                    IN  /\ dir' = d
                        /\ LoadAndSelect(d, <<>>, 0, "create")
               ELSE /\ dir' = SetItem(dir, target_dir,
                                      Folder(NoFile, NoFile, images))
                    /\ lastop' = "create_raised"
                    /\ dialogs' = <<>>
                    /\ UNCHANGED <<entries, rows, currentRow, current_entry,
                                   pending_files>>
    /\ ops' = ops + 1
    /\ UNCHANGED Others

\* A click on another row: currentRowChanged calls render_preview.
SelectRow ==
    /\ ops < MaxOps
    /\ \E index \in 0..(Len(rows) - 1) :
        /\ index # currentRow
        /\ currentRow' = index
        /\ current_entry' = IF index >= Len(entries) THEN <<>>
                            ELSE <<entries[index + 1]>>
    /\ pending_files' = NoPending
    /\ dialogs' = <<>>
    /\ lastop' = "select"
    /\ call' = NoCall
    /\ ops' = ops + 1
    /\ UNCHANGED <<dir, entries, rows, Others>>

\* The sequence s with its element at position from moved to position to.
MoveItem(s, from, to) ==
    LET rest == SubSeq(s, 1, from - 1) \o SubSeq(s, from + 1, Len(s))
    IN  SubSeq(rest, 1, to - 1) \o <<s[from]>> \o SubSeq(rest, to, Len(rest))

\* A row dragged to another place of entry_list (InternalMove, line 71).
\* The press on the row makes it the current row, which is a render_preview
\* when it was not; the drop moves the item inside the list widget, the
\* current index staying on the moved item without a currentRowChanged.  No
\* handler of the window runs on the drop: self.entries is left as it is.
DragRow ==
    /\ ops < MaxOps
    /\ \E from \in 0..(Len(rows) - 1), to \in 0..(Len(rows) - 1) :
        /\ from # to
        /\ rows' = MoveItem(rows, from + 1, to + 1)
        /\ currentRow' = to
        /\ IF from = currentRow
           THEN UNCHANGED <<current_entry, pending_files>>
           ELSE /\ current_entry' = IF from >= Len(entries) THEN <<>>
                                    ELSE <<entries[from + 1]>>
                /\ pending_files' = NoPending
    /\ dialogs' = <<>>
    /\ lastop' = "drag"
    /\ call' = NoCall
    /\ ops' = ops + 1
    /\ UNCHANGED <<dir, entries, Others>>

\* EntryEditor._pick_image with a file chosen; the editor is enabled only
\* while an entry is loaded.
PickImage ==
    /\ ops < MaxOps
    /\ current_entry # <<>>
    /\ \E key \in PickKeys, file_path \in Pictures :
        pending_files' = [pending_files EXCEPT ![key] = file_path]
    /\ dialogs' = <<>>
    /\ lastop' = "pick"
    /\ call' = NoCall
    /\ ops' = ops + 1
    /\ UNCHANGED <<dir, entries, rows, currentRow, current_entry, Others>>

FormNames == {<<"N">>, <<>>}
FormPrices == {<<"2">>}
FormDescs == {<<"x", NL, NL, "y">>}
SaveFailures == {"none", "write", "front", "detail2"}

\* EntryEditor.save_changes and apply_editor_changes.  The form holds the
\* entry's fields or what was typed over them.  fail names the step that
\* raises: the write of the metadata, or the copy of a picked image.
SaveChanges ==
    /\ ops < MaxOps
    /\ current_entry # <<>>
    /\ \E name \in {current_entry[1].name} \cup FormNames,
          price \in {current_entry[1].price} \cup FormPrices,
          desc \in {current_entry[1].description} \cup FormDescs,
          fail \in SaveFailures :
        LET entry == current_entry[1]
            data == [name |-> strip(name), price |-> strip(price),
                     desc |-> strip(desc)]
            folder == IF entry.slug \in DOMAIN dir THEN dir[entry.slug]
                      ELSE Folder(NoFile, NoFile, NoImages)
            written == write_metadata(entry.metadata_path, data, entry.raw_metadata)
            with_meta == IF IsJsonSuffix(entry.metadata_path)
                         THEN [folder EXCEPT !.json = written]
                         ELSE [folder EXCEPT !.txt = written]
            copies == IF fail = "none" THEN 4
                      ELSE (CHOOSE i \in 1..4 : ImageKeys[i] = fail) - 1
            with_images == [with_meta EXCEPT
                              !.images = CopyImages(@, pending_files, copies)]
            previous_slug == entry.slug
        IN  /\ call' = Call(entry.slug, data.name, data.price, data.desc)
            /\ IF fail \in {"none", "write"} THEN TRUE
               ELSE pending_files[fail] # ""
            /\ IF data.name = <<>> \/ data.price = <<>>
               THEN /\ fail = "none"
                    /\ dialogs' = <<Warning(entry.slug, "name and price are required")>>
                    /\ lastop' = "save_rejected"
                    /\ UNCHANGED <<dir, entries, rows, currentRow, current_entry,
                                   pending_files>>
               ELSE IF fail = "write"
               THEN /\ dialogs' = <<Critical(entry.slug, fail)>>
                    /\ lastop' = "save_failed"
                    /\ UNCHANGED <<dir, entries, rows, currentRow, current_entry,
                                   pending_files>>
               ELSE IF fail # "none"
               THEN /\ dir' = SetItem(dir, entry.slug, with_images)
                    /\ dialogs' = <<Critical(entry.slug, fail)>>
                    /\ lastop' = "save_failed"
                    /\ UNCHANGED <<entries, rows, currentRow, current_entry,
                                   pending_files>>
               ELSE LET d == SetItem(dir, entry.slug, with_images)
                    IN  /\ dir' = d
                        /\ LoadAndSelect(d, previous_slug, 0, "save")
    /\ ops' = ops + 1
    /\ UNCHANGED Others

\* The 删除 button of a row, confirmed: delete_entry(entry).  When rmtree
\* raises, the folder is left with or without its first image.
DeleteEntry ==
    /\ ops < MaxOps
    /\ \E i \in 1..Len(entries), outcome \in {"removed", "raised", "raised midway"} :
        LET target_entry == entries[i]
            index == IndexOfSlug(entries, target_entry.slug)
        IN  /\ call' = Call(target_entry.slug, <<>>, <<>>, <<>>)
            /\ IF outcome = "removed"
               THEN LET d == Removed(dir, target_entry.slug)
                    IN  /\ dir' = d
                        /\ LoadAndSelect(d, <<>>, index, "delete")
               ELSE /\ dir' = IF outcome = "raised midway"
                                 /\ target_entry.slug \in DOMAIN dir
                              THEN [dir EXCEPT
                                      ![target_entry.slug].images["front"] = "none"]
                              ELSE dir
                    /\ dialogs' = <<Critical(target_entry.slug, outcome)>>
                    /\ lastop' = "delete_failed"
                    /\ UNCHANGED <<entries, rows, currentRow, current_entry,
                                   pending_files>>
    /\ ops' = ops + 1
    /\ UNCHANGED Others

Next ==
    \/ Reload \/ CreateEntry \/ SelectRow \/ DragRow \/ PickImage
    \/ SaveChanges \/ DeleteEntry

GoodImages == AllImages("old")
GoodJson ==
    JsonFile(JObj([name |-> JStr(<<"A">>), price |-> JStr(<<"1">>),
                   description |-> JList(<<JStr(<<"p">>), JStr(<<"q">>)>>),
                   sku |-> JNum(7)]))
GoodLegacy ==
    TextFile(NameLabel \o <<"B", NL>> \o DescLabel \o <<"d", NL>> \o PriceLabel
                \o <<"3", NL>>)

\* The window after __init__ (lines 39-93): no entry is loaded yet.
StartDirs ==
    { <<>>,
      (<<"a">> :> Folder(GoodJson, NoFile, GoodImages))
        @@ (<<"b">> :> Folder(NoFile, GoodLegacy, GoodImages))
        @@ (Reserved :> Folder(GoodJson, NoFile, GoodImages)),
      (<<"a">> :> Folder(NoFile, GoodJson, GoodImages))
        @@ (<<"a", "-", "1">> :> Folder(GoodJson, NoFile,
                                        [GoodImages EXCEPT !["back"] = "none"]))
        @@ (<<".", "a">> :> Folder(GoodJson, NoFile, GoodImages)),
      (<<"a">> :> Folder(GoodJson, NoFile, GoodImages))
        @@ (<<"c">> :> Folder(DeepJson, NoFile, GoodImages)) }

Init ==
    /\ dir \in StartDirs
    /\ entries = <<>> /\ rows = <<>> /\ currentRow = -1
    /\ current_entry = <<>> /\ pending_files = NoPending /\ dialogs = <<>>
    /\ ops = 0 /\ lastop = "start" /\ call = NoCall
    /\ NormIdle /\ LegacyIdle /\ CodecIdle /\ RenderIdle

Spec == Init /\ [][Next]_vars

---------------------------------------------------------------------------
(* Load specification: the window is opened on a template directory in   *)
(* any of a wide range of states, and the directory is loaded            *)

EmptyText == TextFile(<<SP, NL>>)
BrokenJson == TextFile(<<"{", "a">>)
ListJson == JsonFile(JList(<<JStr(<<"a">>)>>))
NamelessJson == JsonFile(JObj([price |-> JStr(<<"1">>)]))
UnlabelledText == TextFile(<<"a", NL, "b">>)

JsonFileStates ==
    {NoFile, GoodJson, NamelessJson, BrokenJson, EmptyText, ListJson,
     Unreadable, Undecodable, DeepJson}
TxtFileStates ==
    {NoFile, GoodLegacy, GoodJson, BrokenJson, EmptyText, ListJson,
     UnlabelledText, Unreadable, DeepJson}
ImageStates ==
    {GoodImages, NoImages}
        \cup {[GoodImages EXCEPT ![k] = "none"] : k \in ImageKeySet}

\* What may stand under one name: nothing (<<>>), or a folder or file.
FocusStates ==
    {<<>>, <<PlainFile>>}
        \cup {<<Folder(j, t, i)>> :
                j \in JsonFileStates, t \in TxtFileStates, i \in ImageStates}
NeighbourStates ==
    {<<>>, <<Folder(GoodJson, NoFile, GoodImages)>>,
     <<Folder(NoFile, GoodLegacy, [GoodImages EXCEPT !["detail1"] = "none"])>>}
SkippedStates == {<<>>, <<Folder(GoodJson, NoFile, GoodImages)>>}

\* The directory that holds what `under` puts under each name.
DirOf(under) ==
    [n \in {m \in DOMAIN under : under[m] # <<>>} |-> under[n][1]]

LoadDirs ==
    { DirOf((<<"a">> :> a) @@ (<<"b">> :> b) @@ (<<"c">> :> c)
                @@ (<<".", "a">> :> h) @@ (Reserved :> r)) :
        a \in NeighbourStates, b \in FocusStates, c \in NeighbourStates,
        h \in SkippedStates, r \in SkippedStates }

LoadInit ==
    /\ dir \in LoadDirs
    /\ entries = <<>> /\ rows = <<>> /\ currentRow = -1
    /\ current_entry = <<>> /\ pending_files = NoPending /\ dialogs = <<>>
    /\ ops = 0 /\ lastop = "start" /\ call = NoCall
    /\ NormIdle /\ LegacyIdle /\ CodecIdle /\ RenderIdle

LoadNext == Reload

SpecLoad == LoadInit /\ [][LoadNext]_vars

---------------------------------------------------------------------------
(* Properties of the normaliser, checked under SpecNorm *)

\* The trimmed non-blank string items of a list, in list order.
StringParagraphs(items) ==
    LET kept == SelectSeq(items, LAMBDA x : x.t = "str" /\ strip(x.s) # <<>>)
    IN  [i \in 1..Len(kept) |-> strip(kept[i].s)]

\* The blocks of the object items of a list, each mapped at its own position.
RECURSIVE ObjectBlocks(_, _)
ObjectBlocks(items, n) ==
    IF n = 0 THEN <<>>
    ELSE ObjectBlocks(items, n - 1)
            \o (IF items[n].t = "obj"
                THEN block_from_mapping(items[n], <<n - 1>>)
                ELSE <<>>)

\* C5: for a list description the plain text is the non-blank trimmed string
\* items joined by newline in list order, the blocks are those of the object
\* items in list order; only strings give no block, only objects give no text.
C5_ListCoercion ==
    (nop = "coerce_desc_value" /\ nin.t = "list") =>
        /\ nout.text = join(<<NL>>, StringParagraphs(nin.items))
        /\ nout.blocks = ObjectBlocks(nin.items, Len(nin.items))
        /\ (\A i \in 1..Len(nin.items) : nin.items[i].t = "str") => nout.blocks = <<>>
        /\ (\A i \in 1..Len(nin.items) : nin.items[i].t = "obj") => nout.text = <<>>

\* C5 witness: a mixed list coerced to two paragraphs and a block.
C5_Witness ==
    /\ nop = "coerce_desc_value"
    /\ nin.t = "list"
    /\ Len(nin.items) = 3
    /\ nin.items[2].t = "obj"
    /\ Len(StringParagraphs(nin.items)) = 2
    /\ Len(nout.blocks) = 1
    /\ nout.text = <<"a", NL, "b">>

\* The value of the first key of keys present in m: <<>> when none is.
FirstPresent(m, keys) ==
    LET idx == {i \in 1..Len(keys) : keys[i] \in DOMAIN m}
    IN  IF idx = {} THEN <<>> ELSE <<m[keys[SetMin(idx)]]>>

\* The value of the first key of keys whose value is truthy; when none is,
\* the value (or None) of the last key.
FirstTruthy(m, keys) ==
    LET idx == {i \in 1..Len(keys) : Truthy(get(m, keys[i]))}
    IN  IF idx = {} THEN get(m, keys[Len(keys)]) ELSE m[keys[SetMin(idx)]]

\* C6 as stated: the block content is the trimmed text of the first content
\* key present, the title that of the first title key present, and no block
\* is produced exactly when no content key is present or that first present
\* content trims to empty.
C6_FirstPresentKey ==
    (nop = "block_from_mapping") =>
        LET c == FirstPresent(nin.kv, ContentKeys)
            t == FirstPresent(nin.kv, TitleKeys)
        IN  /\ (nout = <<>>) <=> (c = <<>> \/ strip(PyStr(c[1])) = <<>>)
            /\ nout # <<>> =>
                /\ nout[1].content = strip(PyStr(c[1]))
                /\ (t # <<>> /\ strip(PyStr(t[1])) # <<>>) =>
                        nout[1].title = strip(PyStr(t[1]))

\* C6 amended: the content is the trimmed text of the first content key whose
\* value is truthy (of `value` when none is), the title that of the first
\* title key whose value is truthy; no block is produced exactly when that
\* content is None or trims to empty; every block has non-empty trimmed content.
C6_FirstTruthyKey ==
    /\ (nop = "block_from_mapping") =>
        LET c == FirstTruthy(nin.kv, ContentKeys)
            t == FirstTruthy(nin.kv, TitleKeys)
        IN  /\ (nout = <<>>) <=> (c.t = "null" \/ strip(PyStr(c)) = <<>>)
            /\ nout # <<>> =>
                /\ nout[1].content = strip(PyStr(c))
                /\ (Truthy(t) /\ strip(PyStr(t)) # <<>>) =>
                        nout[1].title = strip(PyStr(t))
    /\ LET produced == CASE nop = "coerce_desc_value" -> nout.blocks
                         [] nop \in {"coerce_blocks", "block_from_mapping"} -> nout
                         [] OTHER -> <<>>
       IN  \A i \in 1..Len(produced) :
                /\ produced[i].content # <<>>
                /\ strip(produced[i].content) = produced[i].content

\* C6 witness: the first content key present is empty and a later key gives
\* the block its content.
C6_Witness ==
    /\ nop = "block_from_mapping"
    /\ "text" \in DOMAIN nin.kv
    /\ nin.kv["text"] = JStr(<<>>)
    /\ nout # <<>>
    /\ nout[1].content = <<"content">>

\* The title 要点 N of the 1-based position N.
PositionalTitle(n) == <<"yao", "dian", SP>> \o IntStr(n)

\* The trimmed content an object yields: that of its first truthy content
\* key; <<>> when it yields none.
ContentOf(m) ==
    LET c == FirstTruthy(m, ContentKeys)
    IN  IF c.t = "null" THEN <<>> ELSE strip(PyStr(c))

\* The object has no title: each title key is absent, falsy or blank.
NoTitle(m) ==
    \A i \in 1..Len(TitleKeys) :
        LET t == get(m, TitleKeys[i])
        IN  ~Truthy(t) \/ strip(PyStr(t)) = <<>>

\* The item yields a block: an object with content, or for the
\* block-collecting entry point a string that is not blank.
YieldsBlock(item, strings) ==
    \/ item.t = "obj" /\ ContentOf(item.kv) # <<>>
    \/ strings /\ item.t = "str" /\ strip(item.s) # <<>>

\* C12: when a list is coerced by either entry point, each item that yields
\* a block yields the next block of the result; the block of an object
\* without title at the 1-based position N is titled 要点 N, and in the
\* block-collecting entry point a string item at position N that is not
\* blank becomes the block 要点 N of its trimmed text, N counting every
\* item of the list.  When a single object is coerced, a missing title
\* stays the empty string.
C12_PositionalTitles ==
    LET strings == nop = "coerce_blocks"
        blocks == IF nop = "coerce_desc_value" THEN nout.blocks ELSE nout
    IN  /\ (nop \in {"coerce_desc_value", "coerce_blocks"} /\ nin.t = "list") =>
            LET items == nin.items
                Rank(n) == Cardinality({m \in 1..n : YieldsBlock(items[m], strings)})
            IN  /\ Len(blocks) = Rank(Len(items))
                /\ \A n \in 1..Len(items) :
                    /\ (items[n].t = "obj" /\ YieldsBlock(items[n], strings)
                            /\ NoTitle(items[n].kv)) =>
                        blocks[Rank(n)] =
                            DescriptionBlock(PositionalTitle(n), ContentOf(items[n].kv))
                    /\ (items[n].t = "str" /\ YieldsBlock(items[n], strings)) =>
                        blocks[Rank(n)] =
                            DescriptionBlock(PositionalTitle(n), strip(items[n].s))
        /\ (nop \in {"coerce_desc_value", "coerce_blocks"} /\ nin.t = "obj"
                /\ ContentOf(nin.kv) # <<>> /\ NoTitle(nin.kv)) =>
            blocks = <<DescriptionBlock(<<>>, ContentOf(nin.kv))>>

\* C12 witness: the block-collecting entry point on a list whose first item
\* yields nothing; the string at position 2 and the untitled object at
\* position 3 are titled by their positions.
C12_Witness ==
    /\ nop = "coerce_blocks"
    /\ nin.t = "list"
    /\ Len(nin.items) = 3
    /\ ~YieldsBlock(nin.items[1], TRUE)
    /\ nin.items[2].t = "str"
    /\ nin.items[3].t = "obj"
    /\ NoTitle(nin.items[3].kv)
    /\ Len(nout) = 2
    /\ nout[1].title = <<"yao", "dian", SP, "2">>
    /\ nout[2].title = <<"yao", "dian", SP, "3">>

---------------------------------------------------------------------------
(* Properties of the legacy codec, checked under SpecLegacy *)

SetMax(S) == CHOOSE x \in S : \A y \in S : x >= y

\* The trimmed lines of the trimmed file text.
TrimmedLines(text) ==
    LET lines == splitlines(strip(text))
    IN  [i \in 1..Len(lines) |-> strip(lines[i])]

Labelled(line) ==
    startswith(line, NameLabel) \/ startswith(line, DescLabel)
        \/ startswith(line, PriceLabel)

\* The last line that starts with the label: 0 when there is none.
LastLabelled(lines, label) ==
    LET at == {i \in 1..Len(lines) : startswith(lines[i], label)}
    IN  IF at = {} THEN 0 ELSE SetMax(at)

\* The trimmed text after the three characters of the label.
AfterLabel(line) == strip(SubSeq(line, 4, Len(line)))

LabelValue(lines, label) ==
    LET at == LastLabelled(lines, label)
    IN  IF at = 0 THEN <<>> ELSE AfterLabel(lines[at])

\* The text after the description label and the lines that follow it up to
\* the next labelled line or the end, joined by newline and trimmed.
DescriptionValue(lines) ==
    LET at == LastLabelled(lines, DescLabel)
        stop == SetMin({i \in (at + 1)..(Len(lines) + 1) :
                            i = Len(lines) + 1 \/ Labelled(lines[i])})
    IN  IF at = 0 THEN <<>>
        ELSE strip(join(<<NL>>, <<AfterLabel(lines[at])>>
                                    \o SubSeq(lines, at + 1, stop - 1)))

\* C7: a legacy text parses to the trimmed texts after the name and price
\* labels and to the description label's text followed by the lines up to
\* the next label or the end, joined by newline with the blank lines inside
\* kept; other unlabelled lines are ignored; no blocks are produced.
C7_LegacyParse ==
    (lstage = "parsed" /\ lout.ok) =>
        LET lines == TrimmedLines(ltext)
        IN  /\ lout.meta.name = LabelValue(lines, NameLabel)
            /\ lout.meta.price = LabelValue(lines, PriceLabel)
            /\ lout.meta.description = DescriptionValue(lines)
            /\ lout.meta.description_blocks = <<>>
            /\ lout.raw = JStr(strip(ltext))

\* C7 witness: the example of the claim (h, w for hello, world), and a blank
\* line kept inside a description.
C7_Witness ==
    /\ lstage = "parsed"
    /\ ltext = NameLabel \o <<"X", NL>> \o DescLabel \o <<"h", NL, "w", NL>>
                    \o PriceLabel \o <<"9">>
    /\ lout.ok
    /\ lout.meta = [name |-> <<"X">>, price |-> <<"9">>,
                    description |-> <<"h", NL, "w">>, description_blocks |-> <<>>]

\* C7 second witness state, kept as a definition: a blank line inside the
\* continuation is a paragraph break of the description.
C7_BlankLineKept ==
    /\ lstage = "parsed"
    /\ lout.ok
    /\ lout.meta.description = <<"h", NL, NL, "w">>

---------------------------------------------------------------------------
(* Properties of the legacy round trip, checked under SpecLegacyTrip *)

\* C18: once the legacy text written for a trimmed name, price and
\* description has been parsed, the parse holds exactly that name, price
\* and description.
C18_LegacyRoundTrip ==
    (lstage = "parsed" /\ cdata # <<>>) =>
        /\ lout.ok
        /\ lout.meta.name = cdata.name
        /\ lout.meta.price = cdata.price
        /\ lout.meta.description = cdata.desc

---------------------------------------------------------------------------
(* Properties of the codec, checked under SpecCodec *)

Unchanged(data, meta) ==
    data = [name |-> meta.name, price |-> meta.price, desc |-> meta.description]

\* C1: parsing a JSON object file, writing it with the parsed name, price and
\* description unchanged and parsing the result gives the same three values.
C1_RoundTrip ==
    (cstage = "reparsed" /\ IsJsonSuffix(cname) /\ Unchanged(cdata, centry.meta)) =>
        /\ cre.ok
        /\ cre.meta.name = centry.meta.name
        /\ cre.meta.price = centry.meta.price
        /\ cre.meta.description = centry.meta.description

\* The lines of a text that open a paragraph: not blank, and first or after
\* a blank line.
ParagraphStarts(lines) ==
    {i \in 1..Len(lines) :
        strip(lines[i]) # <<>> /\ (i = 1 \/ strip(lines[i - 1]) = <<>>)}

NonBlank(s) == SelectSeq(s, LAMBDA c : c \notin Whitespace)

RECURSIVE Concat(_)
Concat(parts) == IF parts = <<>> THEN <<>> ELSE Head(parts) \o Concat(Tail(parts))

EditedKeys == {"name", "price", "description", "desc"}

\* C2: once an entry parsed as structured (its raw metadata is a JSON
\* object, under either file name) is written back by an update, the file
\* written is a JSON object that holds every key of the original tree other
\* than name, price, description and desc, with its original value.
C2_UnknownFieldsKept ==
    (cstage = "written" /\ centry.raw.t = "obj") =>
        \A key \in DOMAIN centry.raw.kv \ EditedKeys :
            /\ cfile.k = "json"
            /\ key \in DOMAIN cfile.v.kv
            /\ cfile.v.kv[key] = centry.raw.kv[key]

\* C17: when a structured file has been parsed, written back with the
\* description text exactly as loaded (name and price edited or not) and
\* parsed again, the second parse holds the same description blocks, titles
\* and contents, in the same order, as the first.
C17_BlocksReadOnly ==
    (cstage = "reparsed" /\ centry.raw.t = "obj"
            /\ cdata.desc = centry.meta.description) =>
        /\ cre.ok
        /\ cre.meta.description_blocks = centry.meta.description_blocks

---------------------------------------------------------------------------
(* Properties of the renderer, checked under SpecRender *)

Entities == {AMP, LT, GT, QUOT, APOS}
EntityChar(e) ==
    CASE e = AMP -> "&" [] e = LT -> "<" [] e = GT -> ">"
      [] e = QUOT -> "\"" [] e = APOS -> "'"
IsPrefix(p, s) == Len(p) <= Len(s) /\ SubSeq(s, 1, Len(p)) = p

\* What an HTML parser reads back from escaped text.
RECURSIVE Unescape(_)
Unescape(s) ==
    IF s = <<>> THEN <<>>
    ELSE IF \E e \in Entities : IsPrefix(e, s)
    THEN LET e == CHOOSE x \in Entities : IsPrefix(x, s)
         IN  <<EntityChar(e)>> \o Unescape(SubSeq(s, Len(e) + 1, Len(s)))
    ELSE <<Head(s)>> \o Unescape(Tail(s))

\* No markup character stands for itself: an & only opens an entity.
Inert(seg) ==
    \A i \in 1..Len(seg) :
        /\ seg[i] \notin {"<", ">", "\"", "'"}
        /\ seg[i] = "&" =>
            \E e \in Entities : IsPrefix(e, SubSeq(seg, i, Len(seg)))

\* The text shown by a paragraph: line-break elements read as newlines.
ShownParagraph(seg) == Unescape(replace(seg, BR, <<NL>>))

IndexOf(out, tok, from) ==
    SetMin({i \in from..Len(out) : out[i] = tok} \cup {Len(out) + 1})
\* The tokens between the first `open` at or after `from` and the next `close`.
Between(out, open, close, from) ==
    LET a == IndexOf(out, open, from)
    IN  SubSeq(out, a + 1, IndexOf(out, close, a) - 1)
RECURSIVE Ascending(_)
Ascending(S) ==
    IF S = {} THEN <<>> ELSE <<SetMin(S)>> \o Ascending(S \ {SetMin(S)})

\* The description part of the fragment: what stands between the heading
\* and the end of the first column of the info block.
DescPart ==
    SubSeq(rout, IndexOf(rout, "</h2>", 1) + 1,
           IndexOf(rout, "<div class='price'>", 1) - 2)
ShownBlocks == SelectSeq(rentry.description_blocks, LAMBDA b : b.content # <<>>)
AltStarts == Ascending({i \in 1..Len(rout) : rout[i] = "\" alt=\""})
CardStarts == Ascending({i \in 1..Len(rout) : rout[i] = "<article>"})

\* C8: once an entry is rendered, the whole fragment carries no raw markup
\* character outside the template; slug, name, price, the plain description
\* and every shown block title and content read back from their place as
\* the original text; and the description paragraph and the block contents
\* hold no raw newline, each one being a line-break element.
C8_RenderEscaping ==
    rstage = "done" =>
        LET part == DescPart
            shown == ShownBlocks
            cards == CardStarts
            alts == AltStarts
        IN  /\ Inert(rout)
            /\ Unescape(Between(rout, "<div class='tag'>", "</div>", 1)) = rentry.slug
            /\ Unescape(Between(rout, "<h2>", "</h2>", 1)) = rentry.name
            /\ Unescape(Between(rout, "jiage yuan", "</div>", 1)) = rentry.price
            /\ Len(alts) = 4
            /\ \A k \in 1..4 :
                Unescape(Between(rout, "\" alt=\"", AltCaption[ImageKeys[k]],
                                 alts[k])) = rentry.name
            /\ rentry.description # <<>> =>
                LET seg == Between(part, "<p>", "</p>", 1)
                IN  /\ part[1] = "<p>"
                    /\ NL \notin Range(seg)
                    /\ ShownParagraph(seg) = rentry.description
            /\ Len(cards) = Len(shown)
            /\ \A k \in 1..Len(shown) :
                LET title == Between(rout, "<h3>", "</h3>", cards[k])
                    content == Between(rout, "<p>", "</p>", cards[k])
                IN  /\ Unescape(title) =
                        (IF shown[k].title = <<>> THEN FallbackTitle
                         ELSE shown[k].title)
                    /\ NL \notin Range(content)
                    /\ ShownParagraph(content) = shown[k].content

\* A <script>-like payload with a newline in the description, and a block
\* whose content has a newline, have been rendered.
C8_Witness ==
    /\ rstage = "done"
    /\ rentry.description = <<"<", NL, ">">>
    /\ Len(ShownBlocks) = 2
    /\ BR \in Range(DescPart)
    /\ IsPrefix(<<"<p>">> \o LT \o <<BR>> \o GT \o <<"</p>">>, DescPart)

---------------------------------------------------------------------------
(* Properties of the parsed page, checked under SpecPage *)

\* The blocks derived from each source of a structured object, in the order
\* description, description_blocks, sections, highlights.
BlockGroups(kv) ==
    << coerce_desc_value(get(kv, "description")).blocks,
       coerce_blocks(get(kv, "description_blocks")),
       coerce_blocks(get(kv, "sections")),
       coerce_blocks(get(kv, "highlights")) >>

\* C13: once the entry of a structured metadata object is rendered, its
\* block sequence is the blocks of the description value, then those of
\* description_blocks, then of sections, then of highlights, and the page
\* holds one card per block, in that order, each showing the title (or the
\* fallback title) and the content of its block.
C13_BlockOrder ==
    (rstage = "done" /\ cstage = "parsed") =>
        LET groups == BlockGroups(cfile.v.kv)
            expected == groups[1] \o groups[2] \o groups[3] \o groups[4]
            cards == CardStarts
        IN  /\ rentry.description_blocks = expected
            /\ Len(cards) = Len(expected)
            /\ \A k \in 1..Len(expected) :
                /\ Unescape(Between(rout, "<h3>", "</h3>", cards[k])) =
                    (IF expected[k].title = <<>> THEN FallbackTitle
                     ELSE expected[k].title)
                /\ ShownParagraph(Between(rout, "<p>", "</p>", cards[k])) =
                    expected[k].content

\* C13 witness: a rendered object whose description, description_blocks,
\* sections and highlights all give blocks, six cards in all.
C13_Witness ==
    /\ rstage = "done"
    /\ cstage = "parsed"
    /\ \A g \in 1..4 : BlockGroups(cfile.v.kv)[g] # <<>>
    /\ Len(BlockGroups(cfile.v.kv)[1]) = 2
    /\ Len(rentry.description_blocks) = 6
    /\ Len(CardStarts) = 6
    /\ rentry.description_blocks[6].content = <<"s">>

---------------------------------------------------------------------------
(* Properties of the load, checked under SpecLoad *)

\* The folders load looks at: directories that are neither hidden nor the
\* reserved one.
Eligible ==
    {n \in DOMAIN dir : dir[n].isdir /\ n # Reserved /\ Head(n) # "."}

\* The metadata file of a folder: 信息.json when it exists, else 信息.txt.
HasJsonFile(folder) == folder.json.k # "none"
MetadataOf(folder) == IF HasJsonFile(folder) THEN folder.json ELSE folder.txt

\* The metadata file exists and parses: it is the JSON text of an object,
\* or, under the legacy name, readable text that is not blank and does not
\* open with a brace.
MetadataParses(folder) ==
    LET file == MetadataOf(folder)
    IN  \/ file.k = "json" /\ (file.v.t = "obj" \/ ~HasJsonFile(folder))
        \/ file.k = "deep" /\ ~HasJsonFile(folder)
        \/ /\ file.k = "text" /\ ~HasJsonFile(folder)
           /\ \E i \in 1..Len(file.s) :
                /\ file.s[i] \notin Whitespace
                /\ \A j \in 1..(i - 1) : file.s[j] \in Whitespace
                /\ file.s[i] # "{"

GoodFolders ==
    {n \in Eligible :
        MetadataParses(dir[n]) /\ \A k \in ImageKeySet : dir[n].images[k] # "none"}

\* C4: a load never aborts, and once the directory is loaded the catalog
\* holds, once each, exactly the eligible folders whose metadata file
\* parses and whose four images exist, while each other eligible folder has
\* been reported by exactly one warning.
C4_LoadFilters ==
    /\ lastop # "load_aborted"
    /\ lastop = "load" =>
        /\ {entries[i].slug : i \in 1..Len(entries)} = GoodFolders
        /\ Len(entries) = Cardinality(GoodFolders)
        /\ {dialogs[i].slug : i \in 1..Len(dialogs)} = Eligible \ GoodFolders
        /\ Len(dialogs) = Cardinality(Eligible \ GoodFolders)
        /\ \A i \in 1..Len(dialogs) : dialogs[i].kind = "warning"

---------------------------------------------------------------------------
(* Properties of the store, checked under Spec *)

\* C10: in every state of the store, after whatever sequence of loads,
\* creates, updates and deletes, each entry of the list has a slug that is
\* below the slug of the next one in code-point order.
C10_SortedUniqueSlugs ==
    \A i \in 1..(Len(entries) - 1) :
        LexLess(entries[i].slug, entries[i + 1].slug)

\* After a create and an update, the list holds three entries, one of them
\* in the folder the create made next to its namesake.
C10_Witness ==
    /\ lastop = "save"
    /\ Len(entries) = 3
    /\ entries[2].slug = <<"a", "-", "1">>
    /\ entries[2].name = <<"N">>

\* The entry of the list in the folder slug, as a set of at most one.
EntryOf(es, slug) == {es[i] : i \in {j \in 1..Len(es) : es[j].slug = slug}}

\* The list is what a fresh load of the directory as it stands gives.
FreshlyLoaded == entries = load_entries(dir).entries

\* C11: after a create, an update or a delete that ended without an error,
\* the list equals a fresh load of the directory as it stands; the entry
\* just created is in it under the name and price of the dialog, the folder
\* just deleted is not, and the entry just updated is in it with the name
\* and price just written.
C11_ReloadAfterMutation ==
    /\ lastop \in {"create", "save", "delete"} => FreshlyLoaded
    /\ lastop \in {"create", "save"} =>
        \E e \in EntryOf(entries, call.slug) :
            e.name = call.name /\ e.price = call.price
    /\ lastop = "delete" => EntryOf(entries, call.slug) = {}

\* The place of an image key in the order front, back, detail1, detail2.
SlotOrder(k) == CHOOSE i \in 1..Len(ImageKeys) : ImageKeys[i] = k

\* C14: a step that is an update which failed leaves exactly one error
\* report and no reload (the list, the rows and the editor are as before);
\* when the write of the metadata failed the directory is as before, and
\* when the copy of a picked image failed the entry's folder holds the
\* metadata just written and each image picked for a slot that comes before
\* the failing one in the order front, back, detail1, detail2, its other
\* images and every other folder being as before.
C14_NoRollbackOnFailedUpdate ==
    [][(lastop' = "save_failed" /\ ops' = ops + 1) =>
        LET entry == current_entry[1]
            step == dialogs'[1].msg
            data == [name |-> call'.name, price |-> call'.price,
                     desc |-> call'.desc]
            written == write_metadata(entry.metadata_path, data, entry.raw_metadata)
        IN  /\ Len(dialogs') = 1
            /\ dialogs'[1].kind = "critical"
            /\ dialogs'[1].slug = entry.slug
            /\ call'.slug = entry.slug
            /\ <<entries', rows', currentRow', current_entry', pending_files'>>
                    = <<entries, rows, currentRow, current_entry, pending_files>>
            /\ step = "write" => dir' = dir
            /\ step # "write" =>
                /\ DOMAIN dir' = DOMAIN dir
                /\ \A n \in DOMAIN dir \ {entry.slug} : dir'[n] = dir[n]
                /\ (IF IsJsonSuffix(entry.metadata_path)
                    THEN dir'[entry.slug].json = written
                            /\ dir'[entry.slug].txt = dir[entry.slug].txt
                    ELSE dir'[entry.slug].txt = written
                            /\ dir'[entry.slug].json = dir[entry.slug].json)
                /\ \A k \in ImageKeySet :
                    dir'[entry.slug].images[k] =
                        (IF pending_files[k] # "" /\ SlotOrder(k) < SlotOrder(step)
                         THEN pending_files[k]
                         ELSE dir[entry.slug].images[k])
    ]_vars

\* C14 witness: an update failed at the copy of detail2; the folder holds
\* the new name and the picked front image, and its old detail2 image.
C14_Witness ==
    /\ lastop = "save_failed"
    /\ dialogs = <<Critical(call.slug, "detail2")>>
    /\ pending_files["front"] = "picked"
    /\ dir[call.slug].images["front"] = "picked"
    /\ dir[call.slug].images["detail2"] = "old"
    /\ call.name = <<"N">>
    /\ current_entry[1].name # <<"N">>
    /\ load_metadata(dir[call.slug]).res.meta.name = <<"N">>

SlugSet(es) == {es[i].slug : i \in 1..Len(es)}

C16_EditorMatchesRow ==
    /\ rows = Slugs(entries)
    /\ current_entry # <<>> =>
        /\ currentRow \in 0..(Len(rows) - 1)
        /\ rows[currentRow + 1] = current_entry[1].slug

\* The folder names _make_unique_dir may return for a name: the trimmed
\* name (新婚纱 for a blank one), or that base with -1, -2, ...
CandidateNames(name, upto) ==
    LET base == IF strip(name) # <<>> THEN strip(name) ELSE DefaultFolder
    IN  {base} \cup {base \o <<"-">> \o IntStr(k) : k \in 1..upto}

\* C19: a step that is a create, completed or cut short by an exception,
\* works in a folder that did not exist, named by the base name or by the
\* base name with a numeric suffix when the base name was taken; every
\* folder that existed is still there with the files it had, and the
\* directory gains that one folder.  After a create that completed, the
\* list holds the slugs that a load of the directory as the create found it
\* would hold, and the slug of the new folder.
C19_CreateAddsOneFolder ==
    [][(lastop' \in {"create", "create_raised"} /\ ops' = ops + 1) =>
        /\ call'.slug \notin DOMAIN dir
        /\ call'.slug \in CandidateNames(call'.name, Cardinality(DOMAIN dir))
        /\ call'.slug # strip(call'.name) => strip(call'.name) \in DOMAIN dir
        /\ DOMAIN dir' = DOMAIN dir \cup {call'.slug}
        /\ \A n \in DOMAIN dir : dir'[n] = dir[n]
        /\ lastop' = "create" =>
            /\ call'.slug \notin SlugSet(load_entries(dir).entries)
            /\ SlugSet(entries') =
                    SlugSet(load_entries(dir).entries) \cup {call'.slug}
    ]_vars

\* C20: in every step of the store, picks exist only while an entry is
\* loaded in the editor; a step that leaves a pick pending keeps the entry
\* that was loaded, so a step that loads another entry or clears the editor
\* discards every pick; and, a folder being removed as a whole or in part
\* by a delete only, an image file of a folder that stays changes only in
\* the folder of the entry loaded in the editor, only in a slot that has a
\* pending pick, and only to the picked file.
C20_PendingStayWithEntry ==
    [][/\ pending_files' # NoPending => current_entry' # <<>>
       /\ current_entry' # current_entry => pending_files' = NoPending
       /\ \A k \in ImageKeySet :
            (pending_files'[k] # "" /\ pending_files'[k] # pending_files[k]) =>
                current_entry' = current_entry
       /\ lastop' # "delete_failed" =>
            \A n \in DOMAIN dir \cap DOMAIN dir' : \A k \in ImageKeySet :
                dir'[n].images[k] # dir[n].images[k] =>
                    /\ current_entry # <<>>
                    /\ n = current_entry[1].slug
                    /\ pending_files[k] # ""
                    /\ dir'[n].images[k] = pending_files[k]
    ]_vars

\* C20 witness: after a load of two entries, a click on the second row and
\* a pick, the save has copied the picked front image into folder b alone,
\* and the picks are gone.
C20_Witness ==
    /\ lastop = "save"
    /\ call.slug = <<"b">>
    /\ DOMAIN dir = {<<"a">>, <<"b">>, Reserved}
    /\ dir[<<"b">>].images = [GoodImages EXCEPT !["front"] = "picked"]
    /\ dir[<<"a">>].images = GoodImages
    /\ current_entry # <<>>
    /\ current_entry[1].slug = <<"b">>
    /\ pending_files = NoPending

====
